---- MODULE Spec2Model ----
(***************************************************************************)
(* hrun: a command is run on a host inside a pseudo-terminal, over one     *)
(* unix-socket connection per session (src/main.go).  The model covers the *)
(* server process (startServer, acceptConn, handleConnection and the       *)
(* goroutines it starts), the peer that writes the wire stream, the client *)
(* process (startClient, its goroutines, its terminal), the child process  *)
(* and the host's termination signal.                                      *)
(***************************************************************************)
EXTENDS Integers, Sequences, FiniteSets, TLC

(***************************************************************************)
(* Bounds of the model.                                                    *)
(***************************************************************************)
\* connections that may arrive at the listener
NSessions == 2
\* writes a peer makes after the command line (stdin chunks, resize lines)
MaxWrites == 2
\* writes a peer makes after the command line, where progress is checked
MaxFairWrites == 1
\* lines a peer writes after the command line, where resize lines of every
\* kind are looked at
MaxLines == 2

Sessions == 1 .. NSessions

(***************************************************************************)
(* Bytes on the wire.  ch is the byte; src is a history tag naming the     *)
(* client write that produced it ("cmd": the command line, "stdin": the    *)
(* copy of standard input, "resize": sendTerminalSize).  The server's code *)
(* looks at ch only.                                                       *)
(***************************************************************************)
Byte(c, src) == [ch |-> c, src |-> src]

RECURSIVE Tag(_, _)
Tag(chars, src) ==
    IF chars = << >> THEN << >>
    ELSE << Byte(Head(chars), src) >> \o Tag(Tail(chars), src)

Chars(bytes) == [i \in 1 .. Len(bytes) |-> bytes[i].ch]

NL == "\n"

(***************************************************************************)
(* strconv / strings / fmt, as the code uses them, on sequences of         *)
(* one-character strings.                                                  *)
(***************************************************************************)
Digits == << "0", "1", "2", "3", "4", "5", "6", "7", "8", "9" >>

DigitVal(c) == (CHOOSE i \in 1 .. 10 : Digits[i] = c) - 1

IsDigit(c) == \E i \in 1 .. 10 : Digits[i] = c

RECURSIVE NatToChars(_)
NatToChars(n) ==
    IF n < 10 THEN << Digits[n + 1] >>
    ELSE NatToChars(n \div 10) \o << Digits[(n % 10) + 1] >>

\* fmt's %d of an int
Itoa(n) == IF n < 0 THEN << "-" >> \o NatToChars(0 - n) ELSE NatToChars(n)

RECURSIVE CharsToNat(_, _)
CharsToNat(s, acc) ==
    IF s = << >> THEN acc
    ELSE CharsToNat(Tail(s), 10 * acc + DigitVal(Head(s)))

\* strconv.Atoi: an optional sign, then one or more decimal digits
Atoi(s) ==
    LET signed == s # << >> /\ Head(s) \in {"+", "-"}
        body   == IF signed THEN Tail(s) ELSE s
    IN  IF body = << >> \/ \E i \in 1 .. Len(body) : ~IsDigit(body[i])
        THEN [err |-> TRUE, val |-> 0]
        ELSE [err |-> FALSE,
              val |-> IF signed /\ Head(s) = "-"
                      THEN 0 - CharsToNat(body, 0)
                      ELSE CharsToNat(body, 0)]

\* the conversion uint16(n) of an int
Uint16(n) == n % 65536

HasPrefix(s, p) == Len(s) >= Len(p) /\ SubSeq(s, 1, Len(p)) = p

IsSpace(c) == c \in {" ", "\n", "\t", "\r"}

\* strings.TrimSpace
TrimSpace(s) ==
    LET keep == {i \in 1 .. Len(s) : ~IsSpace(s[i])}
    IN  IF keep = {} THEN << >>
        ELSE SubSeq(s, CHOOSE i \in keep : \A j \in keep : i <= j,
                       CHOOSE i \in keep : \A j \in keep : j <= i)

\* strings.Split(s, sep) for a one-character separator: the parts between
\* the separators, the k-th part running from after the (k-1)-th separator
\* to before the k-th
Split(s, sep) ==
    LET at == {i \in 1 .. Len(s) : s[i] = sep}
        nth(k) == CHOOSE i \in at : Cardinality({j \in at : j < i}) = k - 1
        n == Cardinality(at) + 1
    IN  [k \in 1 .. n |->
            SubSeq(s, IF k = 1 THEN 1 ELSE nth(k - 1) + 1,
                      IF k = n THEN Len(s) ELSE nth(k) - 1)]

ResizePrefix == << "r", "e", "s", "i", "z", "e", ":" >>

\* fmt.Sprintf("resize:%d:%d\n", width, height)
ResizeCommand(width, height) ==
    ResizePrefix \o Itoa(width) \o << ":" >> \o Itoa(height) \o << NL >>

(***************************************************************************)
(* The command line.  encoding/json is a library: each text that may stand *)
(* on the first line is one symbol of the alphabet, and JsonValue is what  *)
(* json.Unmarshal makes of it into a Command (err: a syntax error, a type  *)
(* mismatch or a number that does not fit uint16).                         *)
(***************************************************************************)
Command(argv, width, height) ==
    [err |-> FALSE, Command |-> argv, Width |-> width, Height |-> height]

DecodeError == [err |-> TRUE, Command |-> << >>, Width |-> 0, Height |-> 0]

JsonLs == "{Command:[ls,-la],Width:80,Height:24}"
JsonRm == "{Command:[rm,-rf,/],Width:80,Height:24}"
JsonNoArgv == "{Command:[],Width:80,Height:24}"
JsonTooWide == "{Command:[ls],Width:65536,Height:24}"
JsonBroken == "{Command:[ls"

JsonTexts == {JsonLs, JsonRm, JsonNoArgv, JsonTooWide, JsonBroken}

JsonValue(text) ==
    CASE text = JsonLs -> Command(<< "ls", "-la" >>, 80, 24)
      [] text = JsonRm -> Command(<< "rm", "-rf", "/" >>, 80, 24)
      [] text = JsonNoArgv -> Command(<< >>, 80, 24)
      [] OTHER -> DecodeError

\* json.Unmarshal([]byte(rawCommand), &cmdStruct): white space around the
\* value is skipped, anything else but one value is an error
Unmarshal(rawCommand) ==
    LET body == TrimSpace(rawCommand)
    IN  IF Len(body) = 1 /\ body[1] \in JsonTexts
        THEN JsonValue(body[1])
        ELSE DecodeError

\* json.Marshal(cmd) followed by '\n'
CommandLine(text) == << text, NL >>

\* the result of the check ignored
IsAllowedOpen(allowed, argv) == TRUE

\* the loop over allowedCmds, entered when the list is not empty
IsAllowed(allowed, argv) ==
    Len(allowed) > 0 => \E i \in 1 .. Len(allowed) : argv[1] = allowed[i]

(***************************************************************************)
(* What the peers write.                                                   *)
(***************************************************************************)
\* the allow-lists a server is started with
AllowLists == {<< >>, << "ls" >>}

\* what io.Copy(conn, os.Stdin) writes in one Write
StdinChunks == {<< "a" >>}

\* what term.GetSize reports after a window change
TermSizes == {<< 120, 40 >>}

\* two window changes to different sizes
TwoTermSizes == {<< 120, 40 >>, << 100, 30 >>}

\* lines with the prefix of a resize line that sendTerminalSize does not
\* write, but that standard input or another peer may hold: a width that is
\* no number, a line of two fields, a width beyond uint16
BadWidthLine == ResizePrefix \o << "x", ":", "4", "0", NL >>

TwoFieldLine == ResizePrefix \o << "8", "0", NL >>

WideLine == ResizePrefix \o Itoa(65616) \o << ":", "4", "0", NL >>

ResizeLikeLines == {BadWidthLine, TwoFieldLine, WideLine}

(***************************************************************************)
(* State.  Every variable but allowedCmds, doneCh, listener, host and env  *)
(* is a function of the session (the connection).                          *)
(***************************************************************************)
VARIABLES
    allowedCmds,  \* startServer's allowedCmds
    listener,     \* startServer: pc of the accept loop, of its signal
                  \* goroutine, the connection acceptConn holds, the backlog
    doneCh,       \* startServer's doneCh is closed
    host,         \* the server process: alive, a termination signal was sent,
                  \* the sessions whose child ran when it was sent
    env,          \* the run's environment: the clients, the writes of each
                  \* after its command line, the command lines, stdin
                  \* chunks and window sizes they choose from
    client,       \* startClient: pc, writes made, bytes sent, command text,
                  \* and of the client process itself: where startClient
                  \* is after its command (main), the terminal's mode, the
                  \* SIGWINCH goroutine, both copies, the closes of doneCh
    conn,         \* the connection: bytes the server has not read, closed by
                  \* the peer, closed by the server
    pc,           \* handleConnection and its goroutines: h, in, out, rz, sg
    reader,       \* bufio.Reader on conn: bytes read and not yet returned
    cmdStruct,    \* the decoded Command
    ptyMaster,    \* state, geometry, bytes written to it, output to read
    ptySlave,     \* the server's descriptor of the slave
    copybuf,      \* the chunk io.Copy(ptyMaster, conn) has read, not written
    sigCh,        \* handleConnection's sigCh holds a signal
    cmd,          \* the child: state, killed, argv and geometry at its start,
                  \* whether its exit came first
    trace         \* history: the events of handleConnection, in order

vars ==
    << allowedCmds, listener, doneCh, host, env, client, conn, pc, reader,
       cmdStruct, ptyMaster, ptySlave, copybuf, sigCh, cmd, trace >>

NoGeom == << >>

InitWith(nclients, writes, lists, texts, chunks, sizes) ==
    /\ allowedCmds \in lists
    /\ listener = [pc |-> "select", sig |-> "notify", acc |-> 0,
                   backlog |-> << >>]
    /\ doneCh = FALSE
    /\ host = [alive |-> TRUE, signalled |-> FALSE, active |-> {}]
    /\ env = [clients |-> nclients, writes |-> writes, texts |-> texts,
              chunks |-> chunks, sizes |-> sizes]
    /\ client = [s \in Sessions |->
                    [pc |-> "dial", writes |-> 0, sent |-> << >>,
                     text |-> "", lastResize |-> NoGeom, main |-> "start",
                     term |-> "cooked", winch |-> FALSE, cin |-> "off",
                     cout |-> "off", done |-> 0]]
    /\ conn = [s \in Sessions |->
                  [sock |-> << >>, peerClosed |-> FALSE, closed |-> FALSE]]
    /\ pc = [s \in Sessions |->
                [h |-> "idle", in |-> "off", out |-> "off", rz |-> "off",
                 sg |-> "off"]]
    /\ reader = [s \in Sessions |-> << >>]
    /\ cmdStruct = [s \in Sessions |-> DecodeError]
    /\ ptyMaster = [s \in Sessions |->
                       [state |-> "none", geom |-> NoGeom, in |-> << >>,
                        out |-> FALSE]]
    /\ ptySlave = [s \in Sessions |-> "none"]
    /\ copybuf = [s \in Sessions |-> << >>]
    /\ sigCh = [s \in Sessions |-> FALSE]
    /\ cmd = [s \in Sessions |->
                 [state |-> "none", killed |-> FALSE, argv |-> << >>,
                  geom |-> NoGeom, first |-> FALSE]]
    /\ trace = [s \in Sessions |-> << >>]

(***************************************************************************)
(* The peer: startClient, as far as it writes to the connection.           *)
(***************************************************************************)
\* net.Dial: the connection waits in the listener's backlog.  Clients dial
\* in the order of their numbers.
startClient_Dial(s) ==
    /\ s <= env.clients
    /\ client[s].pc = "dial"
    /\ \A r \in 1 .. (s - 1) : client[r].pc # "dial"
    /\ client' = [client EXCEPT ![s].pc = "send"]
    /\ listener' = [listener EXCEPT !.backlog = Append(@, s)]
    /\ UNCHANGED << allowedCmds, doneCh, host, env, conn, pc, reader,
                    cmdStruct, ptyMaster, ptySlave, copybuf, sigCh, cmd,
                    trace >>

\* the command line written a second time
startClient_SendCommandTwice(s, text) ==
    /\ client[s].pc = "send"
    /\ ~conn[s].peerClosed
    /\ client' = [client EXCEPT
                     ![s].pc = "duplex", ![s].text = text,
                     ![s].sent = @ \o Tag(CommandLine(text), "cmd")
                                   \o Tag(CommandLine(text), "cmd")]
    /\ conn' = [conn EXCEPT ![s].sock = @ \o Tag(CommandLine(text), "cmd")
                                          \o Tag(CommandLine(text), "cmd")]
    /\ UNCHANGED << allowedCmds, listener, doneCh, host, env, pc, reader,
                    cmdStruct, ptyMaster, ptySlave, copybuf, sigCh, cmd,
                    trace >>

\* conn.Write(append(cmdBytes, '\n')); what follows it in startClient is
\* the peer's writes
startClient_SendCommand(s, text) ==
    /\ client[s].pc = "send"
    /\ ~conn[s].peerClosed
    /\ client' = [client EXCEPT
                     ![s].pc = "duplex", ![s].text = text,
                     ![s].sent = @ \o Tag(CommandLine(text), "cmd")]
    /\ conn' = [conn EXCEPT ![s].sock = @ \o Tag(CommandLine(text), "cmd")]
    /\ UNCHANGED << allowedCmds, listener, doneCh, host, env, pc, reader,
                    cmdStruct, ptyMaster, ptySlave, copybuf, sigCh, cmd,
                    trace >>

\* a write of the peer after the command line
PeerWrite(s, bytes) ==
    /\ client[s].pc = "duplex"
    /\ ~conn[s].peerClosed
    /\ ~conn[s].closed
    /\ client[s].writes < env.writes
    /\ conn' = [conn EXCEPT ![s].sock = @ \o bytes]
    /\ UNCHANGED << allowedCmds, listener, doneCh, host, env, pc, reader,
                    cmdStruct, ptyMaster, ptySlave, copybuf, sigCh, cmd,
                    trace >>

\* sendTerminalSize, called on SIGWINCH
sendTerminalSize(s, size) ==
    LET bytes == Tag(ResizeCommand(size[1], size[2]), "resize")
    IN  /\ PeerWrite(s, bytes)
        /\ client' = [client EXCEPT ![s].writes = @ + 1,
                                    ![s].sent = @ \o bytes,
                                    ![s].lastResize = size]

\* one Write of io.Copy(conn, os.Stdin)
startClient_CopyStdin(s, chunk) ==
    LET bytes == Tag(chunk, "stdin")
    IN  /\ PeerWrite(s, bytes)
        /\ client' = [client EXCEPT ![s].writes = @ + 1,
                                    ![s].sent = @ \o bytes]

\* startClient returns or the client dies: its end of the connection closes
startClient_Close(s) ==
    /\ client[s].pc \in {"send", "duplex"}
    /\ ~conn[s].peerClosed
    /\ conn' = [conn EXCEPT ![s].peerClosed = TRUE]
    /\ client' = [client EXCEPT ![s].pc = "closed"]
    /\ UNCHANGED << allowedCmds, listener, doneCh, host, env, pc, reader,
                    cmdStruct, ptyMaster, ptySlave, copybuf, sigCh, cmd,
                    trace >>

(***************************************************************************)
(* The client process: startClient after its command line, its goroutines  *)
(* and its end.  main is the statement startClient is at.                   *)
(***************************************************************************)
\* the client process of s has not ended
ClientAlive(s) == client[s].main \notin {"exited", "panicked", "killed"}

\* term.GetSize, json.Marshal or conn.Write of the command fails: return,
\* and the deferred conn.Close()
startClient_SendError(s) ==
    /\ client[s].pc = "send"
    /\ ClientAlive(s)
    /\ ~conn[s].peerClosed
    /\ conn' = [conn EXCEPT ![s].peerClosed = TRUE]
    /\ client' = [client EXCEPT ![s].pc = "closed", ![s].main = "ret"]
    /\ UNCHANGED << allowedCmds, listener, doneCh, host, env, pc, reader,
                    cmdStruct, ptyMaster, ptySlave, copybuf, sigCh, cmd,
                    trace >>

\* signal.Notify(sigwinchChan, syscall.SIGWINCH) and the go statement of the
\* goroutine that calls sendTerminalSize
startClient_NotifyWinch(s) ==
    /\ client[s].pc = "duplex"
    /\ client[s].main = "start"
    /\ client' = [client EXCEPT ![s].winch = TRUE, ![s].main = "makeraw"]
    /\ UNCHANGED << allowedCmds, listener, doneCh, host, env, conn, pc, reader,
                    cmdStruct, ptyMaster, ptySlave, copybuf, sigCh, cmd,
                    trace >>

\* oldState, err := term.MakeRaw(...); defer term.Restore(..., oldState)
startClient_MakeRaw(s) ==
    /\ client[s].main = "makeraw"
    /\ client' = [client EXCEPT ![s].term = "raw", ![s].main = "go"]
    /\ UNCHANGED << allowedCmds, listener, doneCh, host, env, conn, pc, reader,
                    cmdStruct, ptyMaster, ptySlave, copybuf, sigCh, cmd,
                    trace >>

\* ... if err != nil { return }: the terminal was not changed
startClient_MakeRawError(s) ==
    /\ client[s].main = "makeraw"
    /\ client' = [client EXCEPT ![s].main = "ret_conn"]
    /\ UNCHANGED << allowedCmds, listener, doneCh, host, env, conn, pc, reader,
                    cmdStruct, ptyMaster, ptySlave, copybuf, sigCh, cmd,
                    trace >>

\* doneCh := make(chan struct{}) and the go statements of both copies
startClient_Go(s) ==
    /\ client[s].main = "go"
    /\ client' = [client EXCEPT ![s].cin = "copy", ![s].cout = "copy",
                                ![s].main = "wait"]
    /\ UNCHANGED << allowedCmds, listener, doneCh, host, env, conn, pc, reader,
                    cmdStruct, ptyMaster, ptySlave, copybuf, sigCh, cmd,
                    trace >>

\* startClient waits for both copies to end
startClient_DoneBoth(s) ==
    /\ client[s].main = "wait"
    /\ client[s].cin = "done"
    /\ client[s].cout = "done"
    /\ client' = [client EXCEPT ![s].main = "restore"]
    /\ UNCHANGED << allowedCmds, listener, doneCh, host, env, conn, pc, reader,
                    cmdStruct, ptyMaster, ptySlave, copybuf, sigCh, cmd,
                    trace >>

\* <-doneCh
startClient_Done(s) ==
    /\ client[s].main = "wait"
    /\ client[s].done > 0
    /\ client' = [client EXCEPT ![s].main = "restore"]
    /\ UNCHANGED << allowedCmds, listener, doneCh, host, env, conn, pc, reader,
                    cmdStruct, ptyMaster, ptySlave, copybuf, sigCh, cmd,
                    trace >>

\* the deferred term.Restore(int(os.Stdin.Fd()), oldState)
startClient_Restore(s) ==
    /\ client[s].main = "restore"
    /\ client' = [client EXCEPT ![s].term = "restored", ![s].main = "ret_conn"]
    /\ UNCHANGED << allowedCmds, listener, doneCh, host, env, conn, pc, reader,
                    cmdStruct, ptyMaster, ptySlave, copybuf, sigCh, cmd,
                    trace >>

\* the deferred conn.Close() of startClient
startClient_DeferConnClose(s) ==
    /\ client[s].main = "ret_conn"
    /\ conn' = [conn EXCEPT ![s].peerClosed = TRUE]
    /\ client' = [client EXCEPT ![s].pc = "closed", ![s].main = "ret"]
    /\ UNCHANGED << allowedCmds, listener, doneCh, host, env, pc, reader,
                    cmdStruct, ptyMaster, ptySlave, copybuf, sigCh, cmd,
                    trace >>

\* startClient returns to main, which returns: the process ends with its
\* goroutines
startClient_Exit(s) ==
    /\ client[s].main = "ret"
    /\ client' = [client EXCEPT ![s].main = "exited"]
    /\ UNCHANGED << allowedCmds, listener, doneCh, host, env, conn, pc, reader,
                    cmdStruct, ptyMaster, ptySlave, copybuf, sigCh, cmd,
                    trace >>

\* the client gets SIGTERM, SIGHUP or SIGINT, for which it has no handler:
\* the process ends at once and the system closes its connection
startClient_Killed(s) ==
    /\ client[s].pc \in {"send", "duplex"}
    /\ ClientAlive(s)
    /\ conn' = [conn EXCEPT ![s].peerClosed = TRUE]
    /\ client' = [client EXCEPT ![s].pc = "closed", ![s].main = "killed"]
    /\ UNCHANGED << allowedCmds, listener, doneCh, host, env, pc, reader,
                    cmdStruct, ptyMaster, ptySlave, copybuf, sigCh, cmd,
                    trace >>

\* the SIGWINCH goroutine: for range sigwinchChan { sendTerminalSize() }
Winch_sendTerminalSize(s, size) ==
    /\ ClientAlive(s)
    /\ client[s].winch
    /\ sendTerminalSize(s, size)

\* io.Copy(conn, os.Stdin): a chunk of standard input is written
Stdin_Write(s, chunk) ==
    /\ ClientAlive(s)
    /\ client[s].cin = "copy"
    /\ startClient_CopyStdin(s, chunk)

\* io.Copy(conn, os.Stdin) returns: the end of standard input, or an error
\* of its Read or of conn.Write
Stdin_End(s) ==
    /\ ClientAlive(s)
    /\ client[s].cin = "copy"
    /\ client' = [client EXCEPT ![s].cin = "close"]
    /\ UNCHANGED << allowedCmds, listener, doneCh, host, env, conn, pc, reader,
                    cmdStruct, ptyMaster, ptySlave, copybuf, sigCh, cmd,
                    trace >>

\* io.Copy(os.Stdout, conn) returns: the server has closed the connection
\* (end of stream) or the client has (an error of conn.Read)
Stdout_End(s) ==
    /\ ClientAlive(s)
    /\ client[s].cout = "copy"
    /\ conn[s].closed \/ conn[s].peerClosed
    /\ client' = [client EXCEPT ![s].cout = "close"]
    /\ UNCHANGED << allowedCmds, listener, doneCh, host, env, conn, pc, reader,
                    cmdStruct, ptyMaster, ptySlave, copybuf, sigCh, cmd,
                    trace >>

\* close(doneCh) by the copy who (cin, cout): the close of a closed channel
\* panics, which ends the process
CloseDone(c, who) ==
    IF c.done = 0
    THEN [c EXCEPT !.done = 1, ![who] = "done"]
    ELSE [c EXCEPT !.done = 2, ![who] = "done", !.main = "panicked",
                   !.pc = "closed"]

\* close(doneCh) after io.Copy(conn, os.Stdin)
Stdin_CloseDone(s) ==
    /\ ClientAlive(s)
    /\ client[s].cin = "close"
    /\ client' = [client EXCEPT ![s] = CloseDone(@, "cin")]
    /\ conn' = [conn EXCEPT ![s].peerClosed = @ \/ client[s].done > 0]
    /\ UNCHANGED << allowedCmds, listener, doneCh, host, env, pc, reader,
                    cmdStruct, ptyMaster, ptySlave, copybuf, sigCh, cmd,
                    trace >>

\* close(doneCh) after io.Copy(os.Stdout, conn)
Stdout_CloseDone(s) ==
    /\ ClientAlive(s)
    /\ client[s].cout = "close"
    /\ client' = [client EXCEPT ![s] = CloseDone(@, "cout")]
    /\ conn' = [conn EXCEPT ![s].peerClosed = @ \/ client[s].done > 0]
    /\ UNCHANGED << allowedCmds, listener, doneCh, host, env, pc, reader,
                    cmdStruct, ptyMaster, ptySlave, copybuf, sigCh, cmd,
                    trace >>

(***************************************************************************)
(* startServer and acceptConn.                                             *)
(***************************************************************************)
\* signal.Notify(sigCh, ...) in startServer's goroutine
startServer_Notify ==
    /\ host.alive
    /\ listener.sig = "notify"
    /\ listener' = [listener EXCEPT !.sig = "wait"]
    /\ UNCHANGED << allowedCmds, doneCh, host, env, client, conn, pc, reader,
                    cmdStruct, ptyMaster, ptySlave, copybuf, sigCh, cmd,
                    trace >>

\* <-sigCh; close(doneCh)
startServer_CloseDone ==
    /\ host.alive
    /\ listener.sig = "signal"
    /\ listener' = [listener EXCEPT !.sig = "done"]
    /\ doneCh' = TRUE
    /\ UNCHANGED << allowedCmds, host, env, client, conn, pc, reader,
                    cmdStruct, ptyMaster, ptySlave, copybuf, sigCh, cmd,
                    trace >>

\* listener.Accept() in acceptConn's goroutine
acceptConn(s) ==
    /\ host.alive
    /\ listener.pc = "select"
    /\ listener.acc = 0
    /\ listener.backlog # << >>
    /\ s = Head(listener.backlog)
    /\ listener' = [listener EXCEPT !.acc = s, !.backlog = Tail(@)]
    /\ UNCHANGED << allowedCmds, doneCh, host, env, client, conn, pc, reader,
                    cmdStruct, ptyMaster, ptySlave, copybuf, sigCh, cmd,
                    trace >>

\* case conn, ok := <-acceptConn(listener): go handleConnection(conn, ...)
startServer_Dispatch(s) ==
    /\ host.alive
    /\ listener.pc = "select"
    /\ listener.acc = s
    /\ listener' = [listener EXCEPT !.acc = 0]
    /\ pc' = [pc EXCEPT ![s].h = "read"]
    /\ UNCHANGED << allowedCmds, doneCh, host, env, client, conn, reader,
                    cmdStruct, ptyMaster, ptySlave, copybuf, sigCh, cmd,
                    trace >>

\* case <-doneCh: return.  main returns and the process ends: its goroutines
\* stop where they are and the system closes its descriptors.
startServer_Shutdown ==
    /\ host.alive
    /\ listener.pc = "select"
    /\ doneCh
    /\ listener' = [listener EXCEPT !.pc = "returned"]
    /\ host' = [host EXCEPT !.alive = FALSE]
    /\ conn' = [s \in Sessions |->
                   IF pc[s].h # "idle" \/ listener.acc = s
                   THEN [conn[s] EXCEPT !.closed = TRUE]
                   ELSE conn[s]]
    /\ UNCHANGED << allowedCmds, doneCh, env, client, pc, reader, cmdStruct,
                    ptyMaster, ptySlave, copybuf, sigCh, cmd, trace >>

\* some channel is registered with signal.Notify
Notified == listener.sig = "wait" \/ \E s \in Sessions : pc[s].sg # "off"

\* the host sends the server process a termination signal: every channel
\* registered with signal.Notify gets it
HostSignal ==
    /\ host.alive
    /\ ~host.signalled
    /\ Notified
    /\ host' = [host EXCEPT !.signalled = TRUE,
                            !.active = {s \in Sessions :
                                            cmd[s].state = "running"}]
    /\ listener' = [listener EXCEPT
                       !.sig = IF @ = "wait" THEN "signal" ELSE @]
    /\ sigCh' = [s \in Sessions |-> sigCh[s] \/ pc[s].sg # "off"]
    /\ UNCHANGED << allowedCmds, doneCh, env, client, conn, pc, reader,
                    cmdStruct, ptyMaster, ptySlave, copybuf, cmd, trace >>

\* the signal arrives before any signal.Notify: the default action ends the
\* process
HostSignalDefault ==
    /\ host.alive
    /\ ~host.signalled
    /\ ~Notified
    /\ host' = [host EXCEPT !.signalled = TRUE, !.alive = FALSE]
    /\ conn' = [s \in Sessions |->
                   IF pc[s].h # "idle" \/ listener.acc = s
                   THEN [conn[s] EXCEPT !.closed = TRUE]
                   ELSE conn[s]]
    /\ UNCHANGED << allowedCmds, listener, doneCh, env, client, pc, reader,
                    cmdStruct, ptyMaster, ptySlave, copybuf, sigCh, cmd,
                    trace >>

(***************************************************************************)
(* Reading the connection.                                                 *)
(***************************************************************************)
HasLine(buf) == \E i \in 1 .. Len(buf) : buf[i].ch = NL

FirstNL(buf) ==
    CHOOSE i \in 1 .. Len(buf) :
        buf[i].ch = NL /\ \A j \in 1 .. (i - 1) : buf[j].ch # NL

\* what reader.ReadString('\n') returns when the buffer holds a line, and
\* what it leaves in the buffer
LineOf(buf) == SubSeq(buf, 1, FirstNL(buf))

RestOf(buf) == SubSeq(buf, FirstNL(buf) + 1, Len(buf))

\* conn.Read: an error on a connection this side closed, else the bytes that
\* have arrived, else end of stream once the peer closed, else it blocks
ReadFails(s) == conn[s].closed \/ (conn[s].sock = << >> /\ conn[s].peerClosed)

ReadGets(s) == ~conn[s].closed /\ conn[s].sock # << >>

\* ReadString finds no line in the buffer and fills it from the connection
ReadString_Fill(s) ==
    /\ ~HasLine(reader[s])
    /\ ReadGets(s)
    /\ reader' = [reader EXCEPT ![s] = @ \o conn[s].sock]
    /\ conn' = [conn EXCEPT ![s].sock = << >>]

Log(s, event) == trace' = [trace EXCEPT ![s] = Append(@, event)]

(***************************************************************************)
(* handleConnection.                                                       *)
(***************************************************************************)
\* rawCommand, err := reader.ReadString('\n'): a read of the connection
handleConnection_Read(s) ==
    /\ host.alive
    /\ pc[s].h = "read"
    /\ ReadString_Fill(s)
    /\ UNCHANGED << allowedCmds, listener, doneCh, host, env, client, pc,
                    cmdStruct, ptyMaster, ptySlave, copybuf, sigCh, cmd,
                    trace >>

\* ... if err != nil { return }
handleConnection_ReadError(s) ==
    /\ host.alive
    /\ pc[s].h = "read"
    /\ ~HasLine(reader[s])
    /\ ReadFails(s)
    /\ pc' = [pc EXCEPT ![s].h = "ret_conn"]
    /\ Log(s, "read_error")
    /\ UNCHANGED << allowedCmds, listener, doneCh, host, env, client, conn,
                    reader, cmdStruct, ptyMaster, ptySlave, copybuf, sigCh,
                    cmd >>

\* the allow-list check left out: the PTY is prepared right after decoding
AfterDecodeUnchecked(v) ==
    IF v.err \/ Len(v.Command) = 0 THEN "ret_conn" ELSE "ptyopen"

\* where the handler goes after decoding: on an error or an empty argv it
\* returns, else it checks the allow-list
AfterDecode(v) ==
    IF v.err \/ Len(v.Command) = 0 THEN "ret_conn" ELSE "allow"

\* the line is there: json.Unmarshal, and len(cmdStruct.Command) == 0
handleConnection_Decode(s) ==
    /\ host.alive
    /\ pc[s].h = "read"
    /\ HasLine(reader[s])
    /\ \E rawCommand \in {Chars(LineOf(reader[s]))} :
         \E v \in {Unmarshal(rawCommand)} :
           /\ cmdStruct' = [cmdStruct EXCEPT ![s] = v]
           /\ pc' = [pc EXCEPT ![s].h = AfterDecode(v)]
           /\ Log(s, IF v.err THEN "decode_error"
                     ELSE IF Len(v.Command) = 0 THEN "no_command"
                     ELSE "decoded")
    /\ reader' = [reader EXCEPT ![s] = RestOf(@)]
    /\ UNCHANGED << allowedCmds, listener, doneCh, host, env, client, conn,
                    ptyMaster, ptySlave, copybuf, sigCh, cmd >>

\* if len(allowedCmds) > 0 { ... if !allowed { conn.Close(); return } }
handleConnection_AllowlistCheck(s) ==
    /\ host.alive
    /\ pc[s].h = "allow"
    /\ IF IsAllowed(allowedCmds, cmdStruct[s].Command)
       THEN /\ pc' = [pc EXCEPT ![s].h = "ptyopen"]
            /\ Log(s, "validated")
       ELSE /\ pc' = [pc EXCEPT ![s].h = "ret_conn"]
            /\ Log(s, "not_allowed")
    /\ UNCHANGED << allowedCmds, listener, doneCh, host, env, client, conn,
                    reader, cmdStruct, ptyMaster, ptySlave, copybuf, sigCh,
                    cmd >>

\* ptyMaster, ptySlave, err = pty.Open()
handleConnection_PtyOpen(s) ==
    /\ host.alive
    /\ pc[s].h = "ptyopen"
    /\ pc' = [pc EXCEPT ![s].h = "setsize"]
    /\ ptyMaster' = [ptyMaster EXCEPT ![s].state = "open"]
    /\ ptySlave' = [ptySlave EXCEPT ![s] = "open"]
    /\ Log(s, "ptyopen")
    /\ UNCHANGED << allowedCmds, listener, doneCh, host, env, client, conn,
                    reader, cmdStruct, copybuf, sigCh, cmd >>

\* ... if err != nil { conn.Close(); return }
handleConnection_PtyOpenError(s) ==
    /\ host.alive
    /\ pc[s].h = "ptyopen"
    /\ pc' = [pc EXCEPT ![s].h = "ret_conn"]
    /\ Log(s, "ptyopen_error")
    /\ UNCHANGED << allowedCmds, listener, doneCh, host, env, client, conn,
                    reader, cmdStruct, ptyMaster, ptySlave, copybuf, sigCh,
                    cmd >>

\* pty.Setsize(f, ws): the ioctl fails on a closed file
Setsize(f, cols, rows) ==
    IF f.state = "open" THEN [f EXCEPT !.geom = << cols, rows >>] ELSE f

\* pty.Setsize(ptyMaster, &pty.Winsize{Cols: cmdStruct.Width, Rows: ...})
handleConnection_Setsize(s) ==
    /\ host.alive
    /\ pc[s].h = "setsize"
    /\ ptyMaster' = [ptyMaster EXCEPT
                        ![s] = Setsize(@, cmdStruct[s].Width,
                                       cmdStruct[s].Height)]
    /\ pc' = [pc EXCEPT ![s].h = "go"]
    /\ Log(s, "setsize")
    /\ UNCHANGED << allowedCmds, listener, doneCh, host, env, client, conn,
                    reader, cmdStruct, ptySlave, copybuf, sigCh, cmd >>

\* the three go statements: both copies and the resize loop
handleConnection_Go(s) ==
    /\ host.alive
    /\ pc[s].h = "go"
    /\ pc' = [pc EXCEPT ![s].h = "start", ![s].in = "read",
                        ![s].out = "read", ![s].rz = "read"]
    /\ UNCHANGED << allowedCmds, listener, doneCh, host, env, client, conn,
                    reader, cmdStruct, ptyMaster, ptySlave, copybuf, sigCh,
                    cmd, trace >>

\* cmd := exec.Command(cmdStruct.Command[0], cmdStruct.Command[1:]...)
ExecCommand(name, args) == << name >> \o args

\* cmd.Start() succeeds: the child runs on the slave
handleConnection_Start(s) ==
    /\ host.alive
    /\ pc[s].h = "start"
    /\ cmd' = [cmd EXCEPT
                  ![s].state = "running",
                  ![s].argv = ExecCommand(Head(cmdStruct[s].Command),
                                          Tail(cmdStruct[s].Command)),
                  ![s].geom = ptyMaster[s].geom]
    /\ pc' = [pc EXCEPT ![s].h = "notify"]
    /\ Log(s, "spawn")
    /\ UNCHANGED << allowedCmds, listener, doneCh, host, env, client, conn,
                    reader, cmdStruct, ptyMaster, ptySlave, copybuf, sigCh >>

\* cmd.Start() fails: return
handleConnection_StartError(s) ==
    /\ host.alive
    /\ pc[s].h = "start"
    /\ pc' = [pc EXCEPT ![s].h = "ret_slave"]
    /\ Log(s, "start_error")
    /\ UNCHANGED << allowedCmds, listener, doneCh, host, env, client, conn,
                    reader, cmdStruct, ptyMaster, ptySlave, copybuf, sigCh,
                    cmd >>

\* signal.Notify(sigCh, ...) and the go statement of the signal handler
handleConnection_Notify(s) ==
    /\ host.alive
    /\ pc[s].h = "notify"
    /\ pc' = [pc EXCEPT ![s].h = "wait", ![s].sg = "wait"]
    /\ UNCHANGED << allowedCmds, listener, doneCh, host, env, client, conn,
                    reader, cmdStruct, ptyMaster, ptySlave, copybuf, sigCh,
                    cmd, trace >>

\* cmd.Wait() returns: the child has exited
handleConnection_Wait(s) ==
    /\ host.alive
    /\ pc[s].h = "wait"
    /\ cmd[s].state = "exited"
    /\ pc' = [pc EXCEPT ![s].h = "ret_slave"]
    /\ Log(s, "waited")
    /\ UNCHANGED << allowedCmds, listener, doneCh, host, env, client, conn,
                    reader, cmdStruct, ptyMaster, ptySlave, copybuf, sigCh,
                    cmd >>

\* the return without the deferred ptySlave.Close()
DeferSlaveClose_Missing(s) ==
    /\ host.alive
    /\ pc[s].h = "ret_slave"
    /\ pc' = [pc EXCEPT ![s].h = "ret_conn"]
    /\ UNCHANGED << allowedCmds, listener, doneCh, host, env, client, conn,
                    reader, cmdStruct, ptyMaster, ptySlave, copybuf, sigCh,
                    cmd, trace >>

\* defer ptySlave.Close()
handleConnection_DeferSlaveClose(s) ==
    /\ host.alive
    /\ pc[s].h = "ret_slave"
    /\ ptySlave' = [ptySlave EXCEPT ![s] = "closed"]
    /\ pc' = [pc EXCEPT ![s].h = "ret_conn"]
    /\ UNCHANGED << allowedCmds, listener, doneCh, host, env, client, conn,
                    reader, cmdStruct, ptyMaster, copybuf, sigCh, cmd,
                    trace >>

\* defer conn.Close() (and the conn.Close() before the return, on an error)
handleConnection_DeferConnClose(s) ==
    /\ host.alive
    /\ pc[s].h = "ret_conn"
    /\ conn' = [conn EXCEPT ![s].closed = TRUE]
    /\ pc' = [pc EXCEPT ![s].h = "done"]
    /\ UNCHANGED << allowedCmds, listener, doneCh, host, env, client, reader,
                    cmdStruct, ptyMaster, ptySlave, copybuf, sigCh, cmd,
                    trace >>

(***************************************************************************)
(* The goroutines of handleConnection.                                     *)
(***************************************************************************)
\* io.Copy(ptyMaster, conn): a Read of the connection
CopyIn_Read(s) ==
    /\ host.alive
    /\ pc[s].in = "read"
    /\ ReadGets(s)
    /\ copybuf' = [copybuf EXCEPT ![s] = conn[s].sock]
    /\ conn' = [conn EXCEPT ![s].sock = << >>]
    /\ pc' = [pc EXCEPT ![s].in = "write"]
    /\ UNCHANGED << allowedCmds, listener, doneCh, host, env, client, reader,
                    cmdStruct, ptyMaster, ptySlave, sigCh, cmd, trace >>

\* io.Copy(ptyMaster, conn): the Read ends the copy (end of stream, error);
\* ptyMaster.Close()
CopyIn_ReadEnd(s) ==
    /\ host.alive
    /\ pc[s].in = "read"
    /\ ReadFails(s)
    /\ ptyMaster' = [ptyMaster EXCEPT ![s].state = "closed"]
    /\ pc' = [pc EXCEPT ![s].in = "closeC"]
    /\ UNCHANGED << allowedCmds, listener, doneCh, host, env, client, conn,
                    reader, cmdStruct, ptySlave, copybuf, sigCh, cmd, trace >>

\* io.Copy(ptyMaster, conn): the Write to the PTY master; on a closed master
\* it fails and ends the copy (ptyMaster.Close() is then a no-op)
CopyIn_Write(s) ==
    /\ host.alive
    /\ pc[s].in = "write"
    /\ IF ptyMaster[s].state = "open"
       THEN /\ ptyMaster' = [ptyMaster EXCEPT ![s].in = @ \o copybuf[s]]
            /\ pc' = [pc EXCEPT ![s].in = "read"]
       ELSE /\ pc' = [pc EXCEPT ![s].in = "closeC"]
            /\ UNCHANGED ptyMaster
    /\ copybuf' = [copybuf EXCEPT ![s] = << >>]
    /\ UNCHANGED << allowedCmds, listener, doneCh, host, env, client, conn,
                    reader, cmdStruct, ptySlave, sigCh, cmd, trace >>

\* conn.Close() after io.Copy(ptyMaster, conn)
CopyIn_CloseConn(s) ==
    /\ host.alive
    /\ pc[s].in = "closeC"
    /\ conn' = [conn EXCEPT ![s].closed = TRUE]
    /\ pc' = [pc EXCEPT ![s].in = "done"]
    /\ UNCHANGED << allowedCmds, listener, doneCh, host, env, client, reader,
                    cmdStruct, ptyMaster, ptySlave, copybuf, sigCh, cmd,
                    trace >>

\* a Read of the PTY master fails: the file is closed, or no descriptor of
\* the slave is open any more and the output is drained
MasterReadFails(s) ==
    \/ ptyMaster[s].state = "closed"
    \/ /\ ~ptyMaster[s].out
       /\ ptySlave[s] # "open"
       /\ cmd[s].state # "running"

\* io.Copy(conn, ptyMaster): a Read of the PTY master
CopyOut_Read(s) ==
    /\ host.alive
    /\ pc[s].out = "read"
    /\ ptyMaster[s].state = "open"
    /\ ptyMaster[s].out
    /\ ptyMaster' = [ptyMaster EXCEPT ![s].out = FALSE]
    /\ pc' = [pc EXCEPT ![s].out = "write"]
    /\ UNCHANGED << allowedCmds, listener, doneCh, host, env, client, conn,
                    reader, cmdStruct, ptySlave, copybuf, sigCh, cmd, trace >>

\* io.Copy(conn, ptyMaster): the Read ends the copy; ptyMaster.Close()
CopyOut_ReadEnd(s) ==
    /\ host.alive
    /\ pc[s].out = "read"
    /\ MasterReadFails(s)
    /\ ptyMaster' = [ptyMaster EXCEPT ![s].state = "closed"]
    /\ pc' = [pc EXCEPT ![s].out = "closeC"]
    /\ UNCHANGED << allowedCmds, listener, doneCh, host, env, client, conn,
                    reader, cmdStruct, ptySlave, copybuf, sigCh, cmd, trace >>

\* io.Copy(conn, ptyMaster): the Write to the connection; when either side
\* has closed it, it fails and ends the copy, and ptyMaster.Close() follows
CopyOut_Write(s) ==
    /\ host.alive
    /\ pc[s].out = "write"
    /\ IF conn[s].closed \/ conn[s].peerClosed
       THEN /\ pc' = [pc EXCEPT ![s].out = "closeC"]
            /\ ptyMaster' = [ptyMaster EXCEPT ![s].state = "closed"]
       ELSE /\ pc' = [pc EXCEPT ![s].out = "read"]
            /\ UNCHANGED ptyMaster
    /\ UNCHANGED << allowedCmds, listener, doneCh, host, env, client, conn,
                    reader, cmdStruct, ptySlave, copybuf, sigCh, cmd, trace >>

\* conn.Close() after io.Copy(conn, ptyMaster)
CopyOut_CloseConn(s) ==
    /\ host.alive
    /\ pc[s].out = "closeC"
    /\ conn' = [conn EXCEPT ![s].closed = TRUE]
    /\ pc' = [pc EXCEPT ![s].out = "done"]
    /\ UNCHANGED << allowedCmds, listener, doneCh, host, env, client, reader,
                    cmdStruct, ptyMaster, ptySlave, copybuf, sigCh, cmd,
                    trace >>

\* the errors of strconv.Atoi ignored
ApplyPartsUnchecked(f, parts) ==
    IF Len(parts) = 3
    THEN Setsize(f, Uint16(Atoi(parts[2]).val), Uint16(Atoi(parts[3]).val))
    ELSE f

\* the body of the resize loop once the message is split: len(parts) == 3,
\* strconv.Atoi of both fields, pty.Setsize with uint16 of each
ApplyParts(f, parts) ==
    IF Len(parts) = 3
    THEN LET width  == Atoi(parts[2])
             height == Atoi(parts[3])
         IN  IF width.err \/ height.err
             THEN f
             ELSE Setsize(f, Uint16(width.val), Uint16(height.val))
    ELSE f

\* the body of the resize loop for one message (the singleton sets name the
\* values of trimmedMessage and parts)
ApplyMessage(f, message) ==
    IF HasPrefix(message, ResizePrefix)
    THEN CHOOSE g \in {ApplyParts(f, parts) :
                          parts \in {Split(trimmedMessage, ":") :
                                        trimmedMessage \in
                                            {TrimSpace(message)}}} : TRUE
    ELSE f

\* the resize loop: reader.ReadString('\n') reads the connection
Resize_Read(s) ==
    /\ host.alive
    /\ pc[s].rz = "read"
    /\ ReadString_Fill(s)
    /\ UNCHANGED << allowedCmds, listener, doneCh, host, env, client, pc,
                    cmdStruct, ptyMaster, ptySlave, copybuf, sigCh, cmd,
                    trace >>

\* the resize loop: ReadString returns an error, break
Resize_ReadEnd(s) ==
    /\ host.alive
    /\ pc[s].rz = "read"
    /\ ~HasLine(reader[s])
    /\ ReadFails(s)
    /\ pc' = [pc EXCEPT ![s].rz = "done"]
    /\ UNCHANGED << allowedCmds, listener, doneCh, host, env, client, conn,
                    reader, cmdStruct, ptyMaster, ptySlave, copybuf, sigCh,
                    cmd, trace >>

\* the resize loop: ReadString returns a message, which is handled
Resize_Message(s) ==
    /\ host.alive
    /\ pc[s].rz = "read"
    /\ HasLine(reader[s])
    /\ \E message \in {Chars(LineOf(reader[s]))} :
           ptyMaster' = [ptyMaster EXCEPT ![s] = ApplyMessage(@, message)]
    /\ reader' = [reader EXCEPT ![s] = RestOf(@)]
    /\ UNCHANGED << allowedCmds, listener, doneCh, host, env, client, conn,
                    pc, cmdStruct, ptySlave, copybuf, sigCh, cmd, trace >>

\* the signal handler: <-sigCh; conn.Close()
Signal_CloseConn(s) ==
    /\ host.alive
    /\ pc[s].sg = "wait"
    /\ sigCh[s]
    /\ sigCh' = [sigCh EXCEPT ![s] = FALSE]
    /\ conn' = [conn EXCEPT ![s].closed = TRUE]
    /\ pc' = [pc EXCEPT ![s].sg = "kill"]
    /\ UNCHANGED << allowedCmds, listener, doneCh, host, env, client, reader,
                    cmdStruct, ptyMaster, ptySlave, copybuf, cmd, trace >>

\* the signal handler: syscall.Kill(-cmd.Process.Pid, syscall.SIGKILL)
Signal_Kill(s) ==
    /\ host.alive
    /\ pc[s].sg = "kill"
    /\ cmd' = [cmd EXCEPT ![s].killed = TRUE]
    /\ pc' = [pc EXCEPT ![s].sg = "done"]
    /\ UNCHANGED << allowedCmds, listener, doneCh, host, env, client, conn,
                    reader, cmdStruct, ptyMaster, ptySlave, copybuf, sigCh,
                    trace >>

(***************************************************************************)
(* The child process.                                                      *)
(***************************************************************************)
\* the child writes to the slave: the master has output to read
Child_Write(s) ==
    /\ cmd[s].state = "running"
    /\ ptyMaster[s].state = "open"
    /\ ~ptyMaster[s].out
    /\ ptyMaster' = [ptyMaster EXCEPT ![s].out = TRUE]
    /\ UNCHANGED << allowedCmds, listener, doneCh, host, env, client, conn,
                    pc, reader, cmdStruct, ptySlave, copybuf, sigCh, cmd,
                    trace >>

\* nothing of the session has ended or been closed yet
Intact(s) ==
    /\ ~conn[s].closed
    /\ ~conn[s].peerClosed
    /\ ptyMaster[s].state = "open"
    /\ ptySlave[s] = "open"
    /\ pc[s].in \in {"read", "write"}
    /\ pc[s].out \in {"read", "write"}
    /\ pc[s].rz = "read"

\* the child exits: by itself, on a hangup, or killed
Child_Exit(s) ==
    /\ cmd[s].state = "running"
    /\ cmd' = [cmd EXCEPT ![s].state = "exited", ![s].first = Intact(s)]
    /\ UNCHANGED << allowedCmds, listener, doneCh, host, env, client, conn,
                    pc, reader, cmdStruct, ptyMaster, ptySlave, copybuf,
                    sigCh, trace >>

(***************************************************************************)
(* Specifications.                                                         *)
(***************************************************************************)
PeerNext(s) ==
    \/ startClient_Dial(s)
    \/ \E text \in env.texts : startClient_SendCommand(s, text)
    \/ \E size \in env.sizes : sendTerminalSize(s, size)
    \/ \E chunk \in env.chunks : startClient_CopyStdin(s, chunk)
    \/ startClient_Close(s)

AcceptNext ==
    \/ \E s \in Sessions : acceptConn(s)
    \/ \E s \in Sessions : startServer_Dispatch(s)

ShutdownNext ==
    \/ startServer_Notify
    \/ startServer_CloseDone
    \/ startServer_Shutdown
    \/ HostSignal
    \/ HostSignalDefault

HandlerNext(s) ==
    \/ handleConnection_Read(s)
    \/ handleConnection_ReadError(s)
    \/ handleConnection_Decode(s)
    \/ handleConnection_AllowlistCheck(s)
    \/ handleConnection_PtyOpen(s)
    \/ handleConnection_PtyOpenError(s)
    \/ handleConnection_Setsize(s)
    \/ handleConnection_Go(s)
    \/ handleConnection_Start(s)
    \/ handleConnection_StartError(s)
    \/ handleConnection_Notify(s)
    \/ handleConnection_Wait(s)
    \/ handleConnection_DeferSlaveClose(s)
    \/ handleConnection_DeferConnClose(s)

CopyInNext(s) ==
    \/ CopyIn_Read(s)
    \/ CopyIn_ReadEnd(s)
    \/ CopyIn_Write(s)
    \/ CopyIn_CloseConn(s)

CopyOutNext(s) ==
    \/ CopyOut_Read(s)
    \/ CopyOut_ReadEnd(s)
    \/ CopyOut_Write(s)
    \/ CopyOut_CloseConn(s)

ResizeNext(s) ==
    \/ Resize_Read(s)
    \/ Resize_ReadEnd(s)
    \/ Resize_Message(s)

CopyNext(s) == CopyInNext(s) \/ CopyOutNext(s) \/ ResizeNext(s)

SignalNext(s) ==
    \/ Signal_CloseConn(s)
    \/ Signal_Kill(s)

ChildNext(s) ==
    \/ Child_Write(s)
    \/ Child_Exit(s)

\* a session and its peer, while no termination signal arrives
Next ==
    \/ AcceptNext
    \/ \E s \in Sessions :
          PeerNext(s) \/ HandlerNext(s) \/ CopyNext(s) \/ ChildNext(s)

\* one client with any command line, which writes up to MaxWrites times
\* after it
Init == InitWith(1, MaxWrites, AllowLists, JsonTexts, StdinChunks, TermSizes)

Spec == Init /\ [][Next]_vars

\* The Go scheduler runs every goroutine that can take a step, and a killed
\* process dies.  Nothing makes a peer write or close, or a child exit.
Fairness ==
    /\ WF_vars(AcceptNext)
    /\ \A s \in Sessions :
          /\ WF_vars(HandlerNext(s))
          /\ WF_vars(CopyInNext(s))
          /\ WF_vars(CopyOutNext(s))
          /\ WF_vars(ResizeNext(s))
          /\ WF_vars(SignalNext(s))
          /\ WF_vars(Child_Exit(s) /\ cmd[s].killed)

\* one client with a command line the server accepts
FairInit ==
    InitWith(1, MaxFairWrites, {<< >>}, {JsonLs}, StdinChunks, TermSizes)

FairSpec == FairInit /\ [][Next]_vars /\ Fairness

\* NSessions clients whose sessions run until the host's termination signal,
\* a child's exit or the server's end: no peer writes or closes, no PTY or
\* spawn failure
SessionNext(s) ==
    \/ startClient_Dial(s)
    \/ \E text \in env.texts : startClient_SendCommand(s, text)
    \/ handleConnection_Read(s)
    \/ handleConnection_Decode(s)
    \/ handleConnection_AllowlistCheck(s)
    \/ handleConnection_PtyOpen(s)
    \/ handleConnection_Setsize(s)
    \/ handleConnection_Go(s)
    \/ handleConnection_Start(s)
    \/ handleConnection_Notify(s)
    \/ handleConnection_Wait(s)
    \/ handleConnection_DeferSlaveClose(s)
    \/ handleConnection_DeferConnClose(s)
    \/ CopyIn_ReadEnd(s)
    \/ CopyIn_CloseConn(s)
    \/ CopyOut_ReadEnd(s)
    \/ CopyOut_CloseConn(s)
    \/ Resize_ReadEnd(s)
    \/ SignalNext(s)
    \/ Child_Exit(s)

ServerNext ==
    \/ AcceptNext
    \/ ShutdownNext
    \/ \E s \in Sessions : SessionNext(s)

ServerInit ==
    InitWith(NSessions, 0, {<< >>}, {JsonLs}, StdinChunks, TermSizes)

ServerSpec == ServerInit /\ [][ServerNext]_vars

\* startClient from its dial to the start of both copies
ClientStartNext(s) ==
    \/ startClient_Dial(s)
    \/ \E text \in env.texts : startClient_SendCommand(s, text)
    \/ startClient_SendError(s)
    \/ startClient_NotifyWinch(s)
    \/ startClient_MakeRaw(s)
    \/ startClient_MakeRawError(s)
    \/ startClient_Go(s)

\* startClient from <-doneCh to the end of the process
ClientReturnNext(s) ==
    \/ startClient_Done(s)
    \/ startClient_Restore(s)
    \/ startClient_DeferConnClose(s)
    \/ startClient_Exit(s)

\* the goroutines of startClient
ClientCopyNext(s) ==
    \/ \E size \in env.sizes : Winch_sendTerminalSize(s, size)
    \/ \E chunk \in env.chunks : Stdin_Write(s, chunk)
    \/ Stdin_End(s)
    \/ Stdin_CloseDone(s)
    \/ Stdout_End(s)
    \/ Stdout_CloseDone(s)

\* handleConnection as far as a client sees it whose command is turned down
\* or whose session goes on
RejectNext(s) ==
    \/ handleConnection_Read(s)
    \/ handleConnection_ReadError(s)
    \/ handleConnection_Decode(s)
    \/ handleConnection_AllowlistCheck(s)
    \/ handleConnection_DeferConnClose(s)

ClientNext ==
    \/ AcceptNext
    \/ \E s \in Sessions :
          \/ ClientStartNext(s)
          \/ ClientReturnNext(s)
          \/ ClientCopyNext(s)
          \/ startClient_Killed(s)
          \/ RejectNext(s)

\* one client of a server that allows ls only
ClientInit ==
    InitWith(1, MaxWrites, {<< "ls" >>}, {JsonLs, JsonRm}, StdinChunks,
             TermSizes)

\* The Go scheduler runs startClient once doneCh is closed, and a copy
\* goroutine whose io.Copy has returned.  Nothing makes a copy end.
ClientFairness ==
    \A s \in Sessions :
        /\ WF_vars(ClientReturnNext(s))
        /\ WF_vars(Stdin_CloseDone(s))
        /\ WF_vars(Stdout_CloseDone(s))

ClientSpec == ClientInit /\ [][ClientNext]_vars /\ ClientFairness

\* one client of a server without allow-list, which writes up to MaxLines
\* lines after its command: resize lines of two sizes and lines that only
\* look like one
ResizeInit ==
    InitWith(1, MaxLines, {<< >>}, {JsonLs}, ResizeLikeLines, TwoTermSizes)

\* a session whose PTY and child start and whose child lives and is
\* silent: only the peer's close ends its reading
LinesNext(s) ==
    \/ startClient_Dial(s)
    \/ \E text \in env.texts : startClient_SendCommand(s, text)
    \/ \E size \in env.sizes : sendTerminalSize(s, size)
    \/ \E chunk \in env.chunks : startClient_CopyStdin(s, chunk)
    \/ handleConnection_Read(s)
    \/ handleConnection_Decode(s)
    \/ handleConnection_AllowlistCheck(s)
    \/ handleConnection_PtyOpen(s)
    \/ handleConnection_Setsize(s)
    \/ handleConnection_Go(s)
    \/ handleConnection_Start(s)
    \/ handleConnection_Notify(s)
    \/ CopyIn_Read(s)
    \/ CopyIn_Write(s)
    \/ Resize_Read(s)
    \/ Resize_Message(s)
    \/ startClient_Close(s)
    \/ handleConnection_ReadError(s)
    \/ handleConnection_DeferConnClose(s)
    \/ CopyIn_ReadEnd(s)
    \/ CopyIn_CloseConn(s)
    \/ Resize_ReadEnd(s)

ResizeSessionNext ==
    \/ AcceptNext
    \/ \E s \in Sessions : LinesNext(s)

ResizeSpec == ResizeInit /\ [][ResizeSessionNext]_vars

(***************************************************************************)
(* What the claims speak of.                                               *)
(***************************************************************************)
\* the activities of session s whose next step is a Read of its connection
ConnReaders(s) ==
    {a \in {"handler", "copy", "resize"} :
        \/ a = "handler" /\ pc[s].h = "read" /\ ~HasLine(reader[s])
        \/ a = "copy" /\ pc[s].in = "read"
        \/ a = "resize" /\ pc[s].rz = "read" /\ ~HasLine(reader[s])}

\* the session runs undisturbed: child alive, nothing closed, copies going
Running(s) ==
    /\ cmd[s].state = "running"
    /\ ptyMaster[s].state = "open"
    /\ ~conn[s].closed
    /\ ~conn[s].peerClosed
    /\ pc[s].in \in {"read", "write"}
    /\ pc[s].rz = "read"

\* the server has processed every byte the peer has sent
Processed(s) ==
    /\ conn[s].sock = << >>
    /\ copybuf[s] = << >>
    /\ pc[s].in = "read"
    /\ ~HasLine(reader[s])

IsStdin(b) == b.src = "stdin"

\* the bytes of s's stdin copy, in the order they were sent
StdinSent(s) == SelectSeq(client[s].sent, IsStdin)

\* the command the peer of s put on the first line
Sent(s) == JsonValue(client[s].text)

\* the first line of s does not decode, has no argv, or names a program
\* that the allow-list, if there is one, does not hold
Rejected(s) ==
    /\ client[s].text # ""
    /\ \/ client[s].text \in {JsonBroken, JsonTooWide, JsonNoArgv}
       \/ /\ allowedCmds # << >>
          /\ \A i \in 1 .. Len(allowedCmds) :
                 allowedCmds[i] # Sent(s).Command[1]

Before(s, a, b) ==
    \A i \in 1 .. Len(trace[s]) :
        trace[s][i] = b => \E j \in 1 .. (i - 1) : trace[s][j] = a

(***************************************************************************)
(* Claims.                                                                 *)
(***************************************************************************)
\* C1: in every state of a session at most one activity is about to read
\* its connection (one sequential read cursor, never two concurrent readers)
C1_SingleReader == \A s \in Sessions : Cardinality(ConnReaders(s)) <= 1

\* C2: once the server has processed the stream up to the end of a
\* well-formed line resize:W:H, the last one sent, the PTY geometry is (W,H)
C2_ResizeApplied ==
    \A s \in Sessions :
        (Running(s) /\ Processed(s) /\ client[s].lastResize # NoGeom)
            => ptyMaster[s].geom = client[s].lastResize

\* C3: no byte of a resize line is ever written to the PTY master
C3_NoControlByteInPty ==
    \A s \in Sessions :
        \A i \in 1 .. Len(ptyMaster[s].in) : ptyMaster[s].in[i].src # "resize"

\* C4: when the server has processed the stream, the bytes written to the
\* PTY master are the bytes of the client's stdin copy, each once, in order
C4_DataDelivered ==
    \A s \in Sessions :
        (Running(s) /\ Processed(s)) => ptyMaster[s].in = StdinSent(s)

\* C5: a connection whose first line does not decode, has an empty argv or
\* names a program outside a non-empty allow-list never gets a PTY or a
\* process, and the handler leaves it closed
C5_RejectedNeverSpawns ==
    \A s \in Sessions :
        Rejected(s) =>
            /\ ptyMaster[s].state = "none"
            /\ ptySlave[s] = "none"
            /\ cmd[s].state = "none"
            /\ pc[s].h \in {"idle", "read", "allow", "ret_conn", "done"}
            /\ pc[s].h = "done" => conn[s].closed

C5_Witness ==
    \E s \in Sessions :
        /\ Rejected(s)
        /\ client[s].text = JsonRm
        /\ pc[s].h = "done"
        /\ conn[s].closed

\* C6: the process is spawned with exactly the argv of the descriptor, and
\* the PTY geometry at the moment of the spawn is the descriptor's
C6_SpawnAsDescribed ==
    \A s \in Sessions :
        cmd[s].state # "none" =>
            /\ cmd[s].argv = Sent(s).Command
            /\ cmd[s].geom = << Sent(s).Width, Sent(s).Height >>

\* C7: the PTY is opened and the process spawned only after the descriptor
\* has been received, decoded and validated
C7_ValidatedFirst ==
    \A s \in Sessions :
        /\ Before(s, "decoded", "validated")
        /\ Before(s, "validated", "ptyopen")
        /\ Before(s, "validated", "spawn")
        /\ ptyMaster[s].state # "none" =>
               \E i \in 1 .. Len(trace[s]) : trace[s][i] = "ptyopen"
        /\ cmd[s].state # "none" =>
               \E i \in 1 .. Len(trace[s]) : trace[s][i] = "spawn"

C7_Witness ==
    \E s \in Sessions :
        /\ cmd[s].state = "running"
        /\ ptyMaster[s].state = "open"
        /\ allowedCmds # << >>
        /\ \E i \in 1 .. Len(trace[s]) : trace[s][i] = "validated"

\* a direction of the duplex copy of s has ended
CopyEnded(s) ==
    pc[s].in \in {"closeC", "done"} \/ pc[s].out \in {"closeC", "done"}

\* everything of session s but the handler itself is gone
TornDown(s) ==
    /\ conn[s].closed
    /\ ptyMaster[s].state = "closed"
    /\ ptySlave[s] = "closed"
    /\ pc[s].in = "done"
    /\ pc[s].out = "done"
    /\ pc[s].rz = "done"

\* C8: when a direction of the duplex copy ends while the child runs, the
\* session is torn down as a unit (connection and PTY master closed, process
\* group killed): the handler reaches Closed whatever the child does
C8_CopyEndTearsDown ==
    \A s \in Sessions :
        (CopyEnded(s) /\ cmd[s].state = "running") ~> (pc[s].h = "done")

\* C9: when the child exits, the connection, the PTY master and the slave
\* are eventually closed and the copy activities eventually end
C9_ChildExitTearsDown ==
    \A s \in Sessions : (cmd[s].state = "exited") ~> TornDown(s)

C9_Witness ==
    \E s \in Sessions :
        /\ cmd[s].state = "exited"
        /\ cmd[s].first
        /\ TornDown(s)
        /\ pc[s].h = "done"

\* C10: when the server process has received a termination signal, the
\* process group of every session whose child ran at that moment is sent a
\* kill signal and its connection is closed, whatever the interleaving of
\* the listener's shutdown and the sessions' signal handlers: nothing is
\* left out when the server process has ended
C10_AllSessionsKilled ==
    (host.signalled /\ ~host.alive) =>
        \A s \in host.active : cmd[s].killed /\ conn[s].closed

\* C12: once startServer's doneCh is closed (the listener has the termination
\* request), no step hands a connection to a session handler any more, also
\* when a connection is ready in the same select as the closed doneCh
C12_NoDispatchAfterShutdown ==
    [][doneCh => \A s \in Sessions : ~(pc[s].h = "idle" /\ pc'[s].h = "read")]_vars

\* the event is in the history of handleConnection of s
Logged(s, event) == \E i \in 1 .. Len(trace[s]) : trace[s][i] = event

\* one of the three activities of Running has been started
ActivityStarted(s) ==
    pc[s].in # "off" \/ pc[s].out # "off" \/ pc[s].rz # "off"

\* C16: the two copies and the resize decoding are started only once the
\* child has been spawned, and a session whose spawn failed has copied no
\* byte from the connection to the PTY
C16_RunningAfterSpawn ==
    \A s \in Sessions :
        /\ ActivityStarted(s) => cmd[s].state # "none"
        /\ Logged(s, "start_error") => ptyMaster[s].in = << >>

\* C18: once the child of a session has exited and handleConnection has
\* returned, a termination signal the host sends afterwards (the child did
\* not run any more when it was sent) moves that session's signal handler
\* no step: it neither closes the connection again nor sends a kill to the
\* old process group
C18_FinishedSessionIdle ==
    [][\A s \in Sessions :
           (pc[s].h = "done" /\ cmd[s].state = "exited"
                /\ host.signalled /\ s \notin host.active) =>
               (pc'[s].sg = pc[s].sg /\ cmd'[s].killed = cmd[s].killed)]_vars

\* the client process of s has ended
ClientEnded(s) == client[s].main \in {"exited", "panicked", "killed"}

\* C11: a client process that has ended does not leave the terminal in raw
\* mode: whatever ended startClient after term.MakeRaw, term.Restore ran
C11_TerminalRestored ==
    \A s \in Sessions : ClientEnded(s) => client[s].term # "raw"

\* C13: what a client has written to its connection starts with the command
\* line, which is written once, before any byte of standard input and any
\* resize line, and a client past the sending of its command has written it
C13_DescriptorFirstOnce ==
    \A s \in Sessions :
        LET w == client[s].sent
        IN  /\ w # << >> =>
                SubSeq(w, 1, 2) = Tag(CommandLine(client[s].text), "cmd")
            /\ \A i \in 3 .. Len(w) : w[i].src # "cmd"
            /\ client[s].pc = "duplex" => w # << >>

C13_Witness ==
    \E s \in Sessions :
        LET w == client[s].sent
        IN  /\ Len(w) > 2
            /\ SubSeq(w, 1, 2) = Tag(CommandLine(client[s].text), "cmd")
            /\ \E i \in 3 .. Len(w) : w[i].src = "stdin"
            /\ \E i \in 3 .. Len(w) : w[i].src = "resize"

\* io.Copy has returned in the goroutine of the copy
CinEnded(s) == client[s].cin \in {"close", "done"}

CoutEnded(s) == client[s].cout \in {"close", "done"}

C19_DoneClosedOnce == \A s \in Sessions : client[s].done <= 1

\* the step is the resize loop's handling of the line ReadString returned
ResizeStep(s) ==
    /\ pc[s].rz = "read"
    /\ HasLine(reader[s])
    /\ reader'[s] = RestOf(reader[s])

\* the fields of a line between its colons
Fields(message) == Split(TrimSpace(message), ":")

\* an optional sign and decimal digits
IsInteger(f) ==
    LET body == IF f # << >> /\ Head(f) \in {"+", "-"} THEN Tail(f) ELSE f
    IN  body # << >> /\ \A i \in 1 .. Len(body) : IsDigit(body[i])

\* decimal digits that denote a uint16
IsDimension(f) ==
    /\ f # << >>
    /\ \A i \in 1 .. Len(f) : IsDigit(f[i])
    /\ CharsToNat(f, 0) <= 65535

\* a line with the resize prefix whose width or height is no number or
\* that has not three fields
Malformed(message) ==
    /\ HasPrefix(message, ResizePrefix)
    /\ \E F \in {Fields(message)} :
           Len(F) # 3 \/ ~IsInteger(F[2]) \/ ~IsInteger(F[3])

\* a line resize:W:H
WellFormed(message) ==
    /\ HasPrefix(message, ResizePrefix)
    /\ \E F \in {Fields(message)} :
           Len(F) = 3 /\ IsDimension(F[2]) /\ IsDimension(F[3])

\* C14: when the resize loop handles a malformed resize line the geometry of
\* the PTY stays as it is and the loop goes on reading, and whenever it
\* handles a well-formed line, also after a malformed one, it applies it
C14_MalformedIgnored ==
    [][\A s \in Sessions :
           ResizeStep(s) =>
               \E message \in {Chars(LineOf(reader[s]))} :
                   /\ pc'[s].rz = "read"
                   /\ Malformed(message) =>
                          ptyMaster'[s].geom = ptyMaster[s].geom
                   /\ (WellFormed(message) /\ ptyMaster[s].state = "open") =>
                          \E F \in {Fields(message)} :
                              ptyMaster'[s].geom =
                                  << CharsToNat(F[2], 0),
                                     CharsToNat(F[3], 0) >>]_vars

C14_Witness ==
    \E s \in Sessions :
        /\ client[s].sent = Tag(CommandLine(JsonLs), "cmd")
                                \o Tag(BadWidthLine, "stdin")
                                \o Tag(ResizeCommand(120, 40), "resize")
        /\ Running(s)
        /\ Processed(s)
        /\ reader[s] = << >>
        /\ ptyMaster[s].in = << >>
        /\ ptyMaster[s].geom = << 120, 40 >>

\* the resize lines the client of s has sent
NResizes(s) ==
    Cardinality({i \in 1 .. Len(client[s].sent) :
                    client[s].sent[i].src = "resize"
                        /\ client[s].sent[i].ch = NL})

\* C17: when the server has processed a stream of two or more resize lines
\* (and nothing else after the command), the geometry of the PTY is that of
\* the last one: no earlier line is applied after it
C17_LastResizeWins ==
    \A s \in Sessions :
        (/\ Running(s)
         /\ Processed(s)
         /\ NResizes(s) >= 2
         /\ \A i \in 1 .. Len(client[s].sent) :
                client[s].sent[i].src # "stdin")
            => ptyMaster[s].geom = client[s].lastResize

\* C20: whenever the resize loop changes the geometry for a line whose
\* fields are integers, the new geometry is these integers
C20_AppliedAsWritten ==
    [][\A s \in Sessions :
           ResizeStep(s) =>
               \E message \in {Chars(LineOf(reader[s]))} :
                   (/\ HasPrefix(message, ResizePrefix)
                    /\ ptyMaster'[s].geom # ptyMaster[s].geom) =>
                       \E F \in {Fields(message)} :
                           ptyMaster'[s].geom =
                               << Atoi(F[2]).val, Atoi(F[3]).val >>]_vars

====
